---- MODULE Spec2Model ----
(***************************************************************************)
(* Model of src/hal/v4l2/device.rs: PlatformList::enumerate (capability    *)
(* enumeration over the platform device list) and PlatformDevice (format   *)
(* negotiation and stream creation on one open capture device).            *)
(*                                                                         *)
(* The platform (the v4l crate and the driver behind it) is an external    *)
(* collaborator.  For enumerate it is a snapshot, platform_list, holding   *)
(* the answer of every query of every raw device; for PlatformDevice it is *)
(* the driver's active format plus answers chosen at each call.            *)
(***************************************************************************)
EXTENDS Integers, Sequences, FiniteSets, TLC

VARIABLES
    platform_list,  \* DeviceList::new(): the raw devices and their answers
    list,           \* enumerate: the Vec<DeviceInfo> being built
    pc,             \* enumerate: position in the loop body
    i,              \* enumerate: position of `dev` in platform_list
    controls,       \* enumerate: local `controls`
    formats,        \* enumerate: local `formats`
    plat_formats,   \* enumerate: formats of `plat_formats` not yet visited
    dev,            \* enumerate: the PlatformDevice bound to `dev` (line 109)
    open_handles,   \* platform handles opened by enumerate and not released
    opens,          \* per raw device: PlatformDevice::new successes
    closes,         \* per raw device: handle releases (drops)
    handle,         \* PlatformDevice: "none" | "open"
    active,         \* driver: the active capture format of the open device
    stream,         \* PlatformStream created from the device: "none" | "live"
    borrowed,       \* the &'a mut borrow of the device is outstanding
    last            \* what the last PlatformDevice operation did and returned

enumVars == <<platform_list, list, pc, i, controls, formats, plat_formats,
              dev, open_handles, opens, closes>>
devVars == <<handle, active, stream, borrowed, last>>
vars == <<platform_list, list, pc, i, controls, formats, plat_formats,
          dev, open_handles, opens, closes,
          handle, active, stream, borrowed, last>>

(***************************************************************************)
(* Bounds of the model.                                                    *)
(***************************************************************************)
MaxDevs == 2        \* raw devices in a platform list
MaxFormats == 2     \* formats a device enumerates
MaxSizes == 3       \* frame sizes enumerated for one fourcc
MaxCtrls == 2       \* controls a device reports

(***************************************************************************)
(* Results and options.                                                    *)
(***************************************************************************)
Ok(v) == [ok |-> TRUE, val |-> v]
ErrSeq == [ok |-> FALSE, val |-> <<>>]      \* io::Result<Vec<_>>::Err
ErrSet == [ok |-> FALSE, val |-> {}]        \* io::Result<Capabilities>::Err
Some(v) == [some |-> TRUE, val |-> v]
NoneNat == [some |-> FALSE, val |-> 0]      \* Option<usize>::None
NoneStr == [some |-> FALSE, val |-> ""]     \* Option<String>::None
NoneSeq == [some |-> FALSE, val |-> <<>>]   \* Option<Vec<_>>::None

SeqsUpTo(S, n) == UNION {[1..k -> S] : k \in 0..n}

(***************************************************************************)
(* Integer conversions.  The platform's control fields minimum, maximum,   *)
(* step and default are 32-bit signed (v4l control::Description, filled    *)
(* from v4l2_queryctrl's __s32 fields).  A 64-bit word is kept as its four *)
(* 16-bit limbs, least significant first, with its signedness: `as i64`    *)
(* and `as u64` from a signed 32-bit value both sign-extend the bit        *)
(* pattern, and differ only in how the 64 bits are read.                   *)
(***************************************************************************)
Limb == 2^16

SignExtend64(x) ==
    LET q1 == x \div Limb
        q2 == q1 \div Limb
        q3 == q2 \div Limb
    IN  <<x % Limb, q1 % Limb, q2 % Limb, q3 % Limb>>

AsI64(x) == [signed |-> TRUE, limbs |-> SignExtend64(x)]

AsU64(x) == [signed |-> FALSE, limbs |-> SignExtend64(x)]

\* `index as u32` (line 136): the low 32 bits of the usize.
AsU32(x) == (x % Limb) + Limb * ((x \div Limb) % Limb)

(***************************************************************************)
(* Bit flags are sets of flag names; `a & f == f` is f \subseteq a.        *)
(***************************************************************************)
capture_flag == {"VIDEO_CAPTURE"}
streaming_flag == {"STREAMING"}
EMULATED == {"EMULATED"}

HasFlags(bits, flag) == (bits \cap flag) = flag

(***************************************************************************)
(* FourCC: four bytes; FourCC::new(&repr) copies the four bytes.           *)
(***************************************************************************)
YUYV == <<89, 85, 89, 86>>
MJPG == <<77, 74, 80, 71>>
RGB3 == <<82, 71, 66, 51>>

FourCC_new(repr) == [k \in 1..4 |-> repr[k]]

(***************************************************************************)
(* Control classification, lines 54-101.                                   *)
(***************************************************************************)
ControlTypes == {"Integer", "Boolean", "Menu", "Button", "Integer64",
                 "CtrlClass", "String", "Bitmask", "IntegerMenu",
                 "U8", "U16", "U32", "Area"}

\* lines 71-80: one MenuItem per platform item, kind kept
RECURSIVE MenuItems(_)
MenuItems(plat_items) ==
    IF plat_items = <<>> THEN <<>>
    ELSE LET plat_item == Head(plat_items)
             item == IF plat_item[2].kind = "Name"
                     THEN [kind |-> "String", name |-> plat_item[2].name]
                     ELSE [kind |-> "Integer", value |-> plat_item[2].value]
         IN  <<item>> \o MenuItems(Tail(plat_items))

\* lines 55-94: the match on control.typ
Representation(control) ==
    CASE control.typ \in {"Integer", "Integer64"} ->
            [kind |-> "Integer",
             range |-> <<AsI64(control.minimum), AsI64(control.maximum)>>,
             step |-> AsU64(control.step),
             default |-> AsI64(control.default)]
      [] control.typ = "Boolean" -> [kind |-> "Boolean"]
      [] control.typ = "Menu" ->
            [kind |-> "Menu",
             items |-> IF control.items.some
                       THEN MenuItems(control.items.val) ELSE <<>>]
      [] control.typ = "Button" -> [kind |-> "Button"]
      [] control.typ = "String" -> [kind |-> "String"]
      [] control.typ = "Bitmask" -> [kind |-> "Bitmask"]
      [] OTHER -> [kind |-> "Unknown"]

\* lines 96-100
ControlInfo(control) ==
    [id |-> control.id, name |-> control.name, repr |-> Representation(control)]

\* the control loop dropping the controls it cannot classify
RECURSIVE ClassifyControls_SkipUnknown(_)
ClassifyControls_SkipUnknown(plat_controls) ==
    IF plat_controls = <<>> THEN <<>>
    ELSE (IF Representation(Head(plat_controls)).kind = "Unknown"
          THEN <<>>
          ELSE <<ControlInfo(Head(plat_controls))>>)
         \o ClassifyControls_SkipUnknown(Tail(plat_controls))

\* lines 54-101: the loop over plat_controls
RECURSIVE ClassifyControls(_)
ClassifyControls(plat_controls) ==
    IF plat_controls = <<>> THEN <<>>
    ELSE <<ControlInfo(Head(plat_controls))>>
         \o ClassifyControls(Tail(plat_controls))

(***************************************************************************)
(* Format classification, lines 120-132.                                   *)
(***************************************************************************)
\* the size loop approximating a stepwise range by its smallest size
RECURSIVE Resolutions_StepwiseMin(_)
Resolutions_StepwiseMin(plat_sizes) ==
    IF plat_sizes = <<>> THEN <<>>
    ELSE LET plat_size == Head(plat_sizes)
         IN  (IF plat_size.kind = "Discrete"
              THEN <<(<<plat_size.width, plat_size.height>>)>>
              ELSE <<(<<plat_size.min_width, plat_size.min_height>>)>>)
             \o Resolutions_StepwiseMin(Tail(plat_sizes))

\* lines 126-131: push (width, height) of every Discrete entry
RECURSIVE Resolutions(_)
Resolutions(plat_sizes) ==
    IF plat_sizes = <<>> THEN <<>>
    ELSE LET plat_size == Head(plat_sizes)
         IN  (IF plat_size.kind = "Discrete"
              THEN <<(<<plat_size.width, plat_size.height>>)>>
              ELSE <<>>)
             \o Resolutions(Tail(plat_sizes))

\* lines 120-131
FormatInfo(format, plat_sizes) ==
    [fourcc |-> FourCC_new(format.fourcc),
     resolutions |-> Resolutions(plat_sizes),
     emulated |-> HasFlags(format.flags, EMULATED)]

(***************************************************************************)
(* PlatformList::enumerate, lines 20-144, one action per fallible stage of *)
(* the loop body.  `continue` and the end of the body both end the scope   *)
(* of the iteration's locals: a PlatformDevice bound there is dropped,     *)
(* which releases its platform handle.                                     *)
(***************************************************************************)
raw == platform_list[i]

\* a handle that is never released (mem::forget, a leaked descriptor)
DropsAtScopeEnd_Leak(d) == 0

\* Leaving the iteration's scope: drop of `dev` if it holds a PlatformDevice.
DropsAtScopeEnd(d) == IF d = "open" THEN 1 ELSE 0

\* `continue`, or falling off the end of the loop body
NextDevice ==
    /\ i' = i + 1
    /\ pc' = "caps"
    /\ dev' = "none"
    /\ open_handles' = open_handles - DropsAtScopeEnd(dev)
    /\ closes' = [closes EXCEPT ![i] = @ + DropsAtScopeEnd(dev)]
    /\ plat_formats' = <<>>
    /\ controls' = <<>>
    /\ formats' = <<>>

\* the gate with the streaming test left out
LacksCapability_CaptureOnly(caps) == ~HasFlags(caps, capture_flag)

\* the gate with == written for !=
LacksCapability_Inverted(caps) ==
    \/ HasFlags(caps, capture_flag)
    \/ HasFlags(caps, streaming_flag)

\* lines 42-43: the capability gate
LacksCapability(caps) ==
    \/ ~HasFlags(caps, capture_flag)
    \/ ~HasFlags(caps, streaming_flag)

\* lines 25-46
EnumCaps ==
    /\ pc = "caps"
    /\ i <= Len(platform_list)
    /\ IF ~raw.index.some \/ ~raw.name.some \/ ~raw.caps.ok
       THEN NextDevice
       ELSE IF LacksCapability(raw.caps.val)
       THEN NextDevice
       ELSE /\ pc' = "controls"
            /\ UNCHANGED <<i, dev, open_handles, closes, plat_formats,
                           controls, formats>>
    /\ UNCHANGED <<platform_list, list, opens>>
    /\ UNCHANGED devVars

\* lines 48-101
EnumControls ==
    /\ pc = "controls"
    /\ IF ~raw.controls.ok
       THEN NextDevice
       ELSE /\ controls' = ClassifyControls(raw.controls.val)
            /\ pc' = "open"
            /\ UNCHANGED <<i, dev, open_handles, closes, plat_formats,
                           formats>>
    /\ UNCHANGED <<platform_list, list, opens>>
    /\ UNCHANGED devVars

\* lines 103-109; PlatformDevice::new, lines 152-157
EnumOpen ==
    /\ pc = "open"
    /\ IF ~raw.openable
       THEN NextDevice /\ UNCHANGED opens
       ELSE /\ dev' = "open"
            /\ open_handles' = open_handles + 1
            /\ opens' = [opens EXCEPT ![i] = @ + 1]
            /\ pc' = "formats"
            /\ formats' = <<>>
            /\ UNCHANGED <<i, closes, plat_formats, controls>>
    /\ UNCHANGED <<platform_list, list>>
    /\ UNCHANGED devVars

\* lines 110-113
EnumFormats ==
    /\ pc = "formats"
    /\ IF ~raw.formats.ok
       THEN NextDevice
       ELSE /\ plat_formats' = raw.formats.val
            /\ pc' = "framesizes"
            /\ UNCHANGED <<i, dev, open_handles, closes, controls, formats>>
    /\ UNCHANGED <<platform_list, list, opens>>
    /\ UNCHANGED devVars

\* the format loop without its `continue`: a failed query leaves a format
\* with no resolutions
PushFormat_NoSkip(fmts, format, plat_sizes) ==
    Append(fmts, FormatInfo(format,
                            IF plat_sizes.ok THEN plat_sizes.val ELSE <<>>))

\* lines 116-132: what one pass of the format loop leaves in `formats`
PushFormat(fmts, format, plat_sizes) ==
    IF ~plat_sizes.ok
    THEN fmts
    ELSE Append(fmts, FormatInfo(format, plat_sizes.val))

\* lines 115-133, one format per step
EnumFrameSizes ==
    /\ pc = "framesizes"
    /\ plat_formats # <<>>
    /\ LET format == Head(plat_formats)
           plat_sizes == raw.framesizes[format.fourcc]
       IN  formats' = PushFormat(formats, format, plat_sizes)
    /\ plat_formats' = Tail(plat_formats)
    /\ UNCHANGED <<platform_list, list, pc, i, controls, dev, open_handles,
                   opens, closes>>
    /\ UNCHANGED devVars

\* lines 135-140
DeviceInfo(index, name, fmts, ctrls) ==
    [index |-> AsU32(index), name |-> name, formats |-> fmts,
     controls |-> ctrls]

\* lines 135-141
EnumPush ==
    /\ pc = "framesizes"
    /\ plat_formats = <<>>
    /\ list' = Append(list, DeviceInfo(raw.index.val, raw.name.val,
                                       formats, controls))
    /\ NextDevice
    /\ UNCHANGED <<platform_list, opens>>
    /\ UNCHANGED devVars

\* line 143
EnumReturn ==
    /\ pc = "caps"
    /\ i > Len(platform_list)
    /\ pc' = "done"
    /\ UNCHANGED <<platform_list, list, i, controls, formats, plat_formats,
                   dev, open_handles, opens, closes>>
    /\ UNCHANGED devVars

(***************************************************************************)
(* The platform snapshots enumerate is run against.  Each family varies    *)
(* one part of a raw device's answers and keeps the rest well formed.      *)
(***************************************************************************)
RawDevice(index, name, caps, ctrls, openable, fmts, framesizes) ==
    [index |-> index, name |-> name, caps |-> caps, controls |-> ctrls,
     openable |-> openable, formats |-> fmts, framesizes |-> framesizes]

Discrete(w, h) == [kind |-> "Discrete", width |-> w, height |-> h]
Stepwise(w, h, mw, mh) ==
    [kind |-> "Stepwise", min_width |-> w, min_height |-> h,
     max_width |-> mw, max_height |-> mh, step_width |-> 8, step_height |-> 8]

FourCCs == {YUYV, MJPG}
SizePool == {Discrete(640, 480), Discrete(1280, 720),
             Stepwise(160, 120, 1920, 1080)}
FormatPool == {[fourcc |-> f, flags |-> fl] :
                  f \in FourCCs,
                  fl \in {{}, {"EMULATED"}, {"COMPRESSED", "EMULATED"}}}

NameItem(s) == [kind |-> "Name", name |-> s]
ValueItem(v) == [kind |-> "Value", value |-> v]
MixedItems == <<(<<0, NameItem("Off")>>), (<<1, ValueItem(50)>>),
                (<<3, NameItem("Auto")>>)>>

RawControl(id, typ, minimum, maximum, step, default, items) ==
    [id |-> id, typ |-> typ, name |-> typ, minimum |-> minimum,
     maximum |-> maximum, step |-> step, default |-> default, items |-> items]

TypeSeq == <<"Integer", "Boolean", "Menu", "Button", "Integer64",
             "CtrlClass", "String", "Bitmask", "IntegerMenu",
             "U8", "U16", "U32", "Area">>

TypePool ==
    {RawControl(k, TypeSeq[k], 0 - 64, 64, 1, 0,
                IF TypeSeq[k] \in {"Menu", "IntegerMenu"}
                THEN Some(MixedItems) ELSE NoneSeq) : k \in 1..Len(TypeSeq)}
    \cup {RawControl(20, "Menu", 0, 0, 1, 0, NoneSeq),
          RawControl(21, "Menu", 0, 0, 1, 0, Some(<<>>))}

I32Samples == {0 - 2147483647, 0 - 1, 0, 1, 2147483647}

IntegerPool ==
    {RawControl(7, t, mn, mx, st, df, NoneSeq) :
        t \in {"Integer", "Integer64"}, mn \in I32Samples, mx \in I32Samples,
        st \in I32Samples, df \in I32Samples}

GoodCaps == Ok({"VIDEO_CAPTURE", "STREAMING"})
Brightness == RawControl(1, "Integer", 0 - 64, 64, 1, 0, NoneSeq)
GoodSizes == (YUYV :> Ok(<<Discrete(640, 480), Discrete(1280, 720)>>))
             @@ (MJPG :> ErrSeq)
NoSizes == [f \in FourCCs |-> ErrSeq]
GoodFormats == Ok(<<[fourcc |-> YUYV, flags |-> {}],
                    [fourcc |-> MJPG, flags |-> {"COMPRESSED"}]>>)

Good(k) == RawDevice(Some(k), Some("cam"), GoodCaps, Ok(<<Brightness>>),
                     TRUE, GoodFormats, GoodSizes)

DevicePool ==
    {Good(0), Good(1)}
    \cup {[Good(0) EXCEPT !.index = NoneNat],
          [Good(0) EXCEPT !.name = NoneStr],
          [Good(0) EXCEPT !.controls = ErrSeq],
          [Good(0) EXCEPT !.controls = Ok(<<>>)],
          [Good(0) EXCEPT !.openable = FALSE],
          [Good(0) EXCEPT !.formats = ErrSeq],
          [Good(0) EXCEPT !.formats = Ok(<<>>)],
          [Good(0) EXCEPT !.framesizes = NoSizes]}
    \cup {[Good(0) EXCEPT !.caps = c] :
            c \in {ErrSet, Ok({}), Ok({"VIDEO_CAPTURE"}), Ok({"STREAMING"}),
                   Ok({"VIDEO_CAPTURE", "STREAMING", "READWRITE"})}}

DeviceLists == SeqsUpTo(DevicePool, MaxDevs)

ControlLists ==
    {<<[Good(0) EXCEPT !.controls = Ok(cs)]>> :
        cs \in SeqsUpTo(TypePool, MaxCtrls)}

IntegerLists ==
    {<<[Good(0) EXCEPT !.controls = Ok(<<c>>)]>> : c \in IntegerPool}

FormatLists ==
    {<<[Good(0) EXCEPT !.formats = Ok(fs), !.framesizes = sz]>> :
        fs \in SeqsUpTo(FormatPool, MaxFormats),
        sz \in [FourCCs -> {ErrSeq, Ok(<<>>), Ok(<<Discrete(640, 480)>>)}]}

SizeLists ==
    {<<[Good(0) EXCEPT !.framesizes = (YUYV :> Ok(ss)) @@ (MJPG :> ErrSeq)]>> :
        ss \in SeqsUpTo(SizePool, MaxSizes)}

PlatformLists ==
    DeviceLists \cup ControlLists \cup IntegerLists \cup FormatLists
    \cup SizeLists

(***************************************************************************)
(* PlatformDevice, lines 147-196, and the driver behind its handle.        *)
(***************************************************************************)
PixelFormat(w, h, f) == [width |-> w, height |-> h, fourcc |-> f]

\* what the driver can capture
Supported == {PixelFormat(640, 480, YUYV), PixelFormat(1280, 720, YUYV),
              PixelFormat(640, 480, MJPG)}

\* bytes per row as the driver reports them
DriverStride(p) == IF p.fourcc = YUYV THEN 2 * p.width ELSE 0

DriverFormat(p) ==
    [width |-> p.width, height |-> p.height, fourcc |-> p.fourcc,
     stride |-> DriverStride(p)]

\* VIDIOC_S_FMT: the exact format when supported, else one the driver picks
DriverChoices(req) ==
    IF PixelFormat(req.width, req.height, req.fourcc) \in Supported
    THEN {DriverFormat(req)}
    ELSE {DriverFormat(p) : p \in Supported}

Format_with_stride(w, h, f, stride) ==
    [width |-> w, height |-> h, fourcc |-> f, stride |-> stride]

\* what a caller may ask for
DesiredFormats ==
    {Format_with_stride(w, h, f, st) :
        w \in {640, 1280}, h \in {480, 720}, f \in {YUYV, MJPG, RGB3},
        st \in {0, 4096}}

NoFormat == Format_with_stride(0, 0, <<0, 0, 0, 0>>, 0)
IoError == [ok |-> FALSE, val |-> NoFormat]

\* the request built with the fourcc bytes in reverse order
CaptureFormat_ReversedFourCC(fmt) ==
    [width |-> fmt.width, height |-> fmt.height,
     fourcc |-> [k \in 1..4 |-> fmt.fourcc[5 - k]], stride |-> 0]

\* line 187: the request built from the caller's Format
CaptureFormat(fmt) ==
    [width |-> fmt.width, height |-> fmt.height,
     fourcc |-> FourCC_new(fmt.fourcc), stride |-> 0]

\* lines 176-184
GetFormatResult(plat, get_ok) ==
    IF ~get_ok
    THEN IoError
    ELSE Ok(Format_with_stride(plat.width, plat.height,
                               FourCC_new(plat.fourcc), plat.stride))

\* set_format without the `?`: the set request's error is dropped
SetFormatResult_IgnoresSetError(set_ok, requeried) == requeried

\* lines 188-189: `?` on the set request, then the re-query's result
SetFormatResult(set_ok, requeried) ==
    IF ~set_ok THEN IoError ELSE requeried

\* a borrow that outlives a failed stream construction
BorrowAfterStream_Held(ok) == TRUE

\* line 193-194: the borrow of self lives on only in a returned stream
BorrowAfterStream(ok) == ok

\* lines 188-189: get_format is reached only past the `?`
SetFormatRequeries(set_ok) == set_ok

Idle == [op |-> "none", desired |-> NoFormat, set_ok |-> FALSE,
         requery |-> FALSE, get_ok |-> FALSE, ret |-> IoError,
         before |-> NoFormat]

\* lines 152-157
DevNew ==
    /\ handle = "none"
    /\ \E ok \in BOOLEAN, p \in Supported :
          /\ handle' = IF ok THEN "open" ELSE "none"
          /\ active' = IF ok THEN DriverFormat(p) ELSE NoFormat
          /\ last' = [Idle EXCEPT !.op = "new", !.ret.ok = ok]
    /\ UNCHANGED <<stream, borrowed>>
    /\ UNCHANGED enumVars

\* the PlatformDevice goes out of scope
DevDrop ==
    /\ handle = "open"
    /\ ~borrowed
    /\ handle' = "none"
    /\ active' = NoFormat
    /\ last' = [Idle EXCEPT !.op = "drop"]
    /\ UNCHANGED <<stream, borrowed>>
    /\ UNCHANGED enumVars

\* lines 176-184
GetFormat ==
    /\ handle = "open"
    /\ ~borrowed
    /\ \E get_ok \in BOOLEAN :
          last' = [Idle EXCEPT !.op = "get_format", !.get_ok = get_ok,
                               !.ret = GetFormatResult(active, get_ok),
                               !.before = active]
    /\ UNCHANGED <<handle, active, stream, borrowed>>
    /\ UNCHANGED enumVars

\* lines 186-190
SetFormat ==
    /\ handle = "open"
    /\ ~borrowed
    /\ \E fmt \in DesiredFormats, set_ok \in BOOLEAN, get_ok \in BOOLEAN :
          \E chosen \in DriverChoices(CaptureFormat(fmt)) :
             /\ active' = IF set_ok THEN chosen ELSE active
             /\ last' = [op |-> "set_format", desired |-> fmt,
                         set_ok |-> set_ok,
                         requery |-> SetFormatRequeries(set_ok),
                         get_ok |-> SetFormatRequeries(set_ok) /\ get_ok,
                         ret |-> SetFormatResult(set_ok,
                                    GetFormatResult(active', get_ok)),
                         before |-> active]
    /\ UNCHANGED <<handle, stream, borrowed>>
    /\ UNCHANGED enumVars

\* lines 192-195
StreamNew ==
    /\ handle = "open"
    /\ ~borrowed
    /\ \E ok \in BOOLEAN :
          /\ stream' = IF ok THEN "live" ELSE "none"
          /\ borrowed' = BorrowAfterStream(ok)
          /\ last' = [Idle EXCEPT !.op = "stream", !.ret.ok = ok,
                                  !.before = active]
    /\ UNCHANGED <<handle, active>>
    /\ UNCHANGED enumVars

\* the Box<dyn Stream + 'a> goes out of scope
StreamDrop ==
    /\ stream = "live"
    /\ stream' = "none"
    /\ borrowed' = FALSE
    /\ last' = [Idle EXCEPT !.op = "drop_stream", !.before = active]
    /\ UNCHANGED <<handle, active>>
    /\ UNCHANGED enumVars

(***************************************************************************)
(* Specifications.                                                         *)
(***************************************************************************)
NoDevice ==
    /\ handle = "none"
    /\ active = NoFormat
    /\ stream = "none"
    /\ borrowed = FALSE
    /\ last = Idle

Init ==
    /\ platform_list \in PlatformLists
    /\ list = <<>>
    /\ pc = "caps"
    /\ i = 1
    /\ controls = <<>>
    /\ formats = <<>>
    /\ plat_formats = <<>>
    /\ dev = "none"
    /\ open_handles = 0
    /\ opens = [k \in 1..Len(platform_list) |-> 0]
    /\ closes = [k \in 1..Len(platform_list) |-> 0]
    /\ NoDevice

Next ==
    \/ EnumCaps
    \/ EnumControls
    \/ EnumOpen
    \/ EnumFormats
    \/ EnumFrameSizes
    \/ EnumPush
    \/ EnumReturn

Spec == Init /\ [][Next]_vars

InitDevice ==
    /\ platform_list = <<>>
    /\ list = <<>>
    /\ pc = "idle"
    /\ i = 1
    /\ controls = <<>>
    /\ formats = <<>>
    /\ plat_formats = <<>>
    /\ dev = "none"
    /\ open_handles = 0
    /\ opens = <<>>
    /\ closes = <<>>
    /\ NoDevice

DeviceNext ==
    \/ DevNew
    \/ DevDrop
    \/ GetFormat
    \/ SetFormat
    \/ StreamNew
    \/ StreamDrop

SpecDevice == InitDevice /\ [][DeviceNext]_vars

(***************************************************************************)
(* Properties of enumerate (specification Spec).                           *)
(***************************************************************************)
Done == pc = "done"

RequiredCaps == {"VIDEO_CAPTURE", "STREAMING"}

FailsCapabilityGate(d) == ~d.caps.ok \/ ~(RequiredCaps \subseteq d.caps.val)

\* the conditions C1 lists for a raw device to be returned
ListedConditions(d) ==
    /\ d.index.some
    /\ d.name.some
    /\ ~FailsCapabilityGate(d)
    /\ d.controls.ok
    /\ d.openable

\* the listed conditions plus a successful enumerate_formats
Included(d) == ListedConditions(d) /\ d.formats.ok

IncludedDevices == SelectSeq(platform_list, Included)

Identities(infos) ==
    [k \in 1..Len(infos) |-> <<infos[k].index, infos[k].name>>]

RawIdentities(raws) ==
    [k \in 1..Len(raws) |-> <<raws[k].index.val, raws[k].name.val>>]

\* C1 as stated: the result is, in platform order, one DeviceInfo per raw
\* device with index, name, passing capabilities, controls and openable.
C1_AsStated ==
    Done => Identities(list)
              = RawIdentities(SelectSeq(platform_list, ListedConditions))

\* C1 (amended): enumerate returns, in platform order, exactly one DeviceInfo
\* per raw device that has an index and a name, passes the capability gate,
\* answers the controls query, can be opened and answers enumerate_formats;
\* every other raw device is omitted without disturbing the rest.
C1_EnumerateSelectsInOrder ==
    Done => Identities(list) = RawIdentities(IncludedDevices)

C1_Witness ==
    /\ Done
    /\ Len(platform_list) = 2
    /\ ListedConditions(platform_list[1])
    /\ ~platform_list[1].formats.ok
    /\ Included(platform_list[2])
    /\ Len(list) = 1

\* C2 as stated: an empty result means every raw device failed the
\* capability gate.
C2_AsStated ==
    (Done /\ list = <<>>) =>
        \A k \in 1..Len(platform_list) : FailsCapabilityGate(platform_list[k])

\* C2 (amended): an empty result means every raw device failed one of the
\* per-device steps: index or name missing, capability gate, controls query,
\* open by index, or enumerate_formats.
C2_EmptyMeansEveryDeviceSkipped ==
    (Done /\ list = <<>>) =>
        \A k \in 1..Len(platform_list) :
            LET d == platform_list[k]
            IN  \/ ~d.index.some
                \/ ~d.name.some
                \/ FailsCapabilityGate(d)
                \/ ~d.controls.ok
                \/ ~d.openable
                \/ ~d.formats.ok

C2_Witness ==
    /\ Done
    /\ list = <<>>
    /\ Len(platform_list) = 2
    /\ ~FailsCapabilityGate(platform_list[1])
    /\ ~platform_list[1].controls.ok
    /\ FailsCapabilityGate(platform_list[2])

\* the platform formats of d whose frame-size query succeeds, in order
SizedFormats(d) ==
    LET Sized(f) == d.framesizes[f.fourcc].ok
    IN  SelectSeq(d.formats.val, Sized)

\* C3: a failing frame-size query skips that format only: every included
\* device's formats are the platform formats whose enumerate_framesizes
\* succeeded, in platform order, and the device stays in the result however
\* many of its frame-size queries fail.
C3_FrameSizeFailureSkipsFormatOnly ==
    Done =>
        /\ Len(list) = Len(IncludedDevices)
        /\ \A k \in 1..Len(list) :
              LET want == SizedFormats(IncludedDevices[k])
                  got == list[k].formats
              IN  /\ Len(got) = Len(want)
                  /\ \A m \in 1..Len(got) :
                        /\ got[m].fourcc = want[m].fourcc
                        /\ got[m].emulated = ("EMULATED" \in want[m].flags)

C3_Witness ==
    /\ Done
    /\ Len(list) = 2
    /\ Len(platform_list) = 2
    /\ Len(platform_list[1].formats.val) = 2
    /\ list[1].formats = <<>>
    /\ Len(platform_list[2].formats.val) = 2
    /\ Len(list[2].formats) = 1

DiscreteEntries(sizes) ==
    LET IsDiscrete(e) == e.kind = "Discrete"
    IN  SelectSeq(sizes, IsDiscrete)

\* C4: the resolutions of every emitted format are the (width, height) of
\* the discrete frame-size entries in platform order, duplicates kept;
\* stepwise entries add nothing, and a format with only stepwise entries is
\* emitted with no resolutions.
C4_ResolutionsAreDiscreteEntries ==
    Done =>
        \A k \in 1..Len(list) :
            LET d == IncludedDevices[k]
                sized == SizedFormats(d)
            IN  /\ Len(list[k].formats) = Len(sized)
                /\ \A m \in 1..Len(list[k].formats) :
                      LET sizes == d.framesizes[sized[m].fourcc].val
                          disc == DiscreteEntries(sizes)
                          res == list[k].formats[m].resolutions
                      IN  /\ Len(res) = Cardinality(
                                 {j \in 1..Len(sizes) :
                                     sizes[j].kind = "Discrete"})
                          /\ res = [j \in 1..Len(disc) |->
                                       <<disc[j].width, disc[j].height>>]

C4_Witness ==
    /\ Done
    /\ Len(list) = 1
    /\ platform_list[1].framesizes[YUYV].ok
    /\ platform_list[1].framesizes[YUYV].val
         = <<Discrete(640, 480), Stepwise(160, 120, 1920, 1080),
             Discrete(640, 480)>>
    /\ list[1].formats[1].resolutions = <<(<<640, 480>>), (<<640, 480>>)>>

\* the representation C5 names for each raw control type
ExpectedKind(typ) ==
    IF typ = "Integer" \/ typ = "Integer64" THEN "Integer"
    ELSE IF typ \in {"Boolean", "Menu", "Button", "String", "Bitmask"}
    THEN typ
    ELSE "Unknown"

\* C5: every included device has one ControlInfo per platform control, in
\* the platform's order, with the same id and name, whose representation is
\* the variant of the raw type and Unknown for every unrecognized type.
C5_ControlsClassifiedTotally ==
    Done =>
        \A k \in 1..Len(list) :
            LET plat == IncludedDevices[k].controls.val
                got == list[k].controls
            IN  /\ Len(got) = Len(plat)
                /\ \A c \in 1..Len(got) :
                      /\ got[c].id = plat[c].id
                      /\ got[c].name = plat[c].name
                      /\ got[c].repr.kind = ExpectedKind(plat[c].typ)

C5_Witness ==
    /\ Done
    /\ Len(list) = 1
    /\ Len(list[1].controls) = 2
    /\ platform_list[1].controls.val[1].typ = "IntegerMenu"
    /\ list[1].controls[1].repr.kind = "Unknown"
    /\ platform_list[1].controls.val[2].typ = "Integer64"
    /\ list[1].controls[2].repr.kind = "Integer"

\* the number a 64-bit word stands for equals x (x within 32 bits)
NumericallyEqual(w, x) ==
    LET l == w.limbs
    IN  \/ /\ l[4] = 0 /\ l[3] = 0 /\ l[2] < 32768
           /\ x = l[2] * 65536 + l[1]
        \/ /\ w.signed
           /\ l[4] = 65535 /\ l[3] = 65535 /\ l[2] >= 32768
           /\ x = (l[2] - 65536) * 65536 + l[1]

IntegerControls(k) ==
    {c \in 1..Len(list[k].controls) :
        IncludedDevices[k].controls.val[c].typ \in {"Integer", "Integer64"}}

\* C6: for every Integer or Integer64 control, range, step and default of
\* the representation are numerically the platform's minimum, maximum, step
\* and default, for all platform values including negative ones.
C6_IntegerFieldsVerbatim ==
    Done =>
        \A k \in 1..Len(list) : \A c \in IntegerControls(k) :
            LET plat == IncludedDevices[k].controls.val[c]
                repr == list[k].controls[c].repr
            IN  /\ NumericallyEqual(repr.range[1], plat.minimum)
                /\ NumericallyEqual(repr.range[2], plat.maximum)
                /\ NumericallyEqual(repr.default, plat.default)
                /\ NumericallyEqual(repr.step, plat.step)

\* C9: enumerate never leaks a device handle: at most one handle it opened
\* is open at any point, the handle of a raw device is released exactly once
\* before the next raw device is processed, also when enumerate_formats
\* fails, and none is open when enumerate returns.
C9_NoHandleLeak ==
    /\ open_handles \in {0, 1}
    /\ (pc \in {"caps", "controls", "open", "done"}) => open_handles = 0
    /\ (pc \in {"formats", "framesizes"}) =>
          (open_handles = 1 /\ opens[i] = 1 /\ closes[i] = 0)
    /\ \A k \in 1..Len(platform_list) :
          /\ opens[k] <= 1
          /\ closes[k] <= opens[k]
          /\ (k < i) => closes[k] = opens[k]
          /\ (k > i) => opens[k] = 0

C9_Witness ==
    /\ Done
    /\ Len(platform_list) = 2
    /\ ~platform_list[1].formats.ok
    /\ opens = <<1, 1>>
    /\ closes = <<1, 1>>
    /\ Len(list) = 1

(***************************************************************************)
(* Properties of PlatformDevice (specification SpecDevice).                *)
(***************************************************************************)
ExactlySupported(fmt) ==
    PixelFormat(fmt.width, fmt.height, fmt.fourcc) \in Supported

SetSucceeded ==
    /\ last.op = "set_format"
    /\ last.ret.ok
    /\ ExactlySupported(last.desired)

\* C7: after a successful set_format of an exactly supported (width, height,
\* fourcc), the Format it returns and the Format an immediately following
\* get_format returns both carry the requested fourcc, whatever stride the
\* request carried.
C7_SetFormatRoundTrip ==
    /\ [](SetSucceeded => last.ret.val.fourcc = last.desired.fourcc)
    /\ [][(SetSucceeded /\ last'.op = "get_format" /\ last'.ret.ok)
            => last'.ret.val.fourcc = last.desired.fourcc]_vars

C7_Witness ==
    /\ SetSucceeded
    /\ last.desired.stride = 4096
    /\ last.desired.fourcc = MJPG
    /\ last.before.fourcc = YUYV
    /\ last.ret.val.stride = 0

\* C8: get_format, set_format and stream can be performed on an open device
\* exactly when no live stream created from it exists; a failed stream()
\* leaves the device unborrowed.
C8_StreamBorrowsExclusively ==
    /\ borrowed <=> (stream = "live")
    /\ (handle = "open") =>
          /\ (ENABLED GetFormat) <=> (stream = "none")
          /\ (ENABLED SetFormat) <=> (stream = "none")
          /\ (ENABLED StreamNew) <=> (stream = "none")

C8_Witness ==
    /\ handle = "open"
    /\ last.op = "stream"
    /\ ~last.ret.ok
    /\ stream = "none"
    /\ ENABLED SetFormat

\* C10: set_format returns Ok(f) exactly when the set request and the
\* re-query both succeed, and f is then the active format; a rejected set
\* request issues no re-query and leaves the active format unchanged; an
\* accepted request whose re-query fails returns an error with the active
\* format already set by the request.
C10_SetFormatOutcomes ==
    (last.op = "set_format") =>
        /\ last.ret.ok <=> (last.set_ok /\ last.get_ok)
        /\ last.ret.ok => last.ret.val = active
        /\ ~last.set_ok => (~last.requery /\ active = last.before)
        /\ (last.set_ok /\ ~last.get_ok) =>
              /\ last.requery
              /\ ~last.ret.ok
              /\ active \in DriverChoices(last.desired)

C10_Witness ==
    /\ last.op = "set_format"
    /\ last.set_ok
    /\ ~last.ret.ok
    /\ active # last.before

====
